---- MODULE Spec2Model ----
(***************************************************************************)
(* Model of worker/app.py, the AI Shorts worker.                           *)
(*                                                                         *)
(* POST /shorts starts one daemon thread per accepted request; the thread  *)
(* runs run_pipeline, which fetches the project row, then walks the nine   *)
(* steps, writing a progress checkpoint to the shorts_projects table       *)
(* before each of them.  The state is the table (one row per project id),  *)
(* the working directory WORK_DIR/<project_id> of every project, the lazy  *)
(* Supabase client, and every thread's locals and position.                *)
(*                                                                         *)
(* Times are integers in milliseconds.  Every external call (Supabase,     *)
(* yt-dlp, ffmpeg, ffprobe, OpenAI) returns or raises; which of the two is *)
(* chosen by \E in the action that makes the call.                         *)
(***************************************************************************)
EXTENDS Integers, Sequences, FiniteSets, TLC

\* ------------------------------------------------------------------ bounds
\* The largest max_clips setting of a project row.
MaxClips == 2

Projects == {"p1", "p2"}

\* The requests POST /shorts receives, by arrival number; request r's pipeline
\* runs in thread r.  One request in Spec, two in SpecConc.
Threads == {1, 2}
SoloRequests == {1}
ConcRequests == {1, 2}
None == "None"

Sec(n) == n * 1000

\* str(e) of an exception: a message, or the empty string (Exception()).
Msgs == {"", "failed"}

Max(a, b) == IF a >= b THEN a ELSE b
Min(a, b) == IF a <= b THEN a ELSE b

\* ------------------------------------------------------------ module state
AUDIO_BUFFER == 500

VARIABLES
  posts,        \* the requests POST /shorts has still to receive
  response,     \* status code of the last response of /shorts (0: none yet)
  store,        \* table shorts_projects: project id -> row
  sb_client,    \* _sb_client is not None
  dirs,         \* WORK_DIR/<project_id> exists
  files,        \* the files under WORK_DIR/<project_id>
  pc,           \* per thread: the statement of run_pipeline it is at
  pid,          \* per thread: project_id
  strategy,     \* per thread: the strategies download_video's loop has tried
  cfg,          \* per thread: the settings read from the project row
  dl,           \* per thread: download_video's result
  transcript,   \* per thread: transcribe_audio's result
  content,      \* per thread: GPT's parsed reply while step 3 validates it
  moments,      \* per thread: detect_viral_moments' result
  clips,        \* per thread: the clip list of steps 4..9
  error_msg     \* per thread: str(e) in run_pipeline's except block

vars == <<posts, response, store, sb_client, dirs, files, pc, pid, strategy, cfg, dl,
          transcript, content, moments, clips, error_msg>>

shared == <<store, sb_client, dirs, files>>
locals == <<strategy, cfg, dl, transcript, content, moments, clips, error_msg>>

\* ------------------------------------------------------------------- table
\* The row as the frontend inserts it, before the worker is called.
NewRow(settings) ==
  [ status |-> "processing", progress_pct |-> 0, progress_stage |-> "pending",
    error_message |-> None, clips |-> <<>>, source_duration_sec |-> -1,
    transcript |-> None, settings |-> settings ]

\* .update(data).eq("id", project_id).execute(): the row's fields named in data
\* are overwritten; a project id with no row matches nothing.
TableUpdate(st, project_id, data) ==
  IF project_id \in DOMAIN st
  THEN [st EXCEPT ![project_id] =
          [f \in DOMAIN @ |-> IF f \in DOMAIN data THEN data[f] ELSE @[f]]]
  ELSE st

\* update_progress's dict: status and error_message only for a truthy error.
ProgressData(pct, stage, error) ==
  LET data == [progress_pct |-> pct, progress_stage |-> stage]
  IN  IF error # None /\ error # ""
      THEN data @@ [status |-> "error", error_message |-> error]
      ELSE data

\* update_progress: the table after the call.  executed = FALSE is execute()
\* raising, which update_progress catches and prints.
update_progress(project_id, pct, stage, error, executed) ==
  IF executed
  THEN TableUpdate(store, project_id, ProgressData(pct, stage, error))
  ELSE store

\* Mutant of Checkpoint: the second "analyzing" checkpoint is followed by the
\* analysis of step 3 once more.
Checkpoint_analysis_again(at) ==
  CASE at = "up_downloading"  -> [pct |-> 5,  stage |-> "downloading",  next |-> "download_video"]
    [] at = "up_transcribing" -> [pct |-> 20, stage |-> "transcribing", next |-> "transcribe_audio"]
    [] at = "up_analyzing"    -> [pct |-> 40, stage |-> "analyzing",    next |-> "detect_viral_moments"]
    [] at = "up_clipping"     -> [pct |-> 55, stage |-> "clipping",     next |-> "extract_clips"]
    [] at = "up_captioning"   -> [pct |-> 70, stage |-> "captioning",   next |-> "add_captions"]
    [] at = "up_thumbnails"   -> [pct |-> 80, stage |-> "thumbnails",   next |-> "generate_thumbnails"]
    [] at = "up_titles"       -> [pct |-> 85, stage |-> "analyzing",    next |-> "detect_viral_moments"]
    [] at = "up_uploading"    -> [pct |-> 90, stage |-> "uploading",    next |-> "upload_to_storage"]
    [] at = "up_done"         -> [pct |-> 98, stage |-> "done",         next |-> "finalize"]

\* The checkpoint run_pipeline writes at each position, and the step after it.
Checkpoint(at) ==
  CASE at = "up_downloading"  -> [pct |-> 5,  stage |-> "downloading",  next |-> "download_video"]
    [] at = "up_transcribing" -> [pct |-> 20, stage |-> "transcribing", next |-> "transcribe_audio"]
    [] at = "up_analyzing"    -> [pct |-> 40, stage |-> "analyzing",    next |-> "detect_viral_moments"]
    [] at = "up_clipping"     -> [pct |-> 55, stage |-> "clipping",     next |-> "extract_clips"]
    [] at = "up_captioning"   -> [pct |-> 70, stage |-> "captioning",   next |-> "add_captions"]
    [] at = "up_thumbnails"   -> [pct |-> 80, stage |-> "thumbnails",   next |-> "generate_thumbnails"]
    [] at = "up_titles"       -> [pct |-> 85, stage |-> "analyzing",    next |-> "generate_titles_descriptions"]
    [] at = "up_uploading"    -> [pct |-> 90, stage |-> "uploading",    next |-> "upload_to_storage"]
    [] at = "up_done"         -> [pct |-> 98, stage |-> "done",         next |-> "finalize"]

Checkpoints ==
  { "up_downloading", "up_transcribing", "up_analyzing", "up_clipping",
    "up_captioning", "up_thumbnails", "up_titles", "up_uploading", "up_done" }

\* ------------------------------------------- step 3: detect_viral_moments
\* A JSON value of GPT's reply: a number, a string that spells the number v, a
\* string that spells no number, or null.  Times are in ms, scores in points.
Num(n) == [type |-> "number", v |-> n]
Str(n) == [type |-> "str", v |-> n]
Text == [type |-> "text", v |-> 0]
Null == [type |-> "null", v |-> 0]

\* m.get(key, default)
Get(m, key, default) == IF key \in DOMAIN m THEN m[key] ELSE default

\* float(x) and int(x) return for a number and for a string that spells one,
\* and raise ValueError or TypeError for any other value.
Converts(x) == x.type \in {"number", "str"}

\* a - b in the TOO SHORT message: TypeError unless both are numbers.
Subtracts(a, b) == a.type = "number" /\ b.type = "number"

\* round(x, 2) on milliseconds: to the nearest 10 ms, a tie to the even one.
Round2(x) ==
  LET q == x \div 10
      r == x % 10
  IN  IF r < 5 THEN q * 10
      ELSE IF r > 5 THEN (q + 1) * 10
      ELSE IF q % 2 = 0 THEN q * 10 ELSE (q + 1) * 10

\* Mutant of Enforce: the score of the reply is taken as it is.
Enforce_score_unclamped(m, video_duration, clip_min_sec, clip_max_sec) ==
  LET start0 == Max(0, Get(m, "start_time", Num(0)).v)
      end0   == Min(video_duration, Get(m, "end_time", Num(start0 + clip_min_sec)).v)
      dur0   == end0 - start0
      short  == dur0 < clip_min_sec
      end1   == IF short THEN Min(video_duration, end0 + (clip_min_sec - dur0)) ELSE end0
      still  == short /\ end1 - start0 < clip_min_sec
      start1 == IF still THEN Max(0, start0 - (clip_min_sec - (end1 - start0))) ELSE start0
      end2   == IF end1 - start1 > clip_max_sec THEN start1 + clip_max_sec ELSE end1
      end    == Min(video_duration, end2)
  IN  [ start_time |-> Round2(start1),
        end_time   |-> Round2(end),
        duration   |-> Round2(end - start1),
        hook_score |-> Get(m, "hook_score", Num(50)).v,
        reason     |-> Get(m, "reason", "High engagement potential") ]

\* Mutant of Enforce: a moment that is too short has its start pulled back
\* first, and its end extended only if it is still short.
Enforce_start_first(m, video_duration, clip_min_sec, clip_max_sec) ==
  LET start0 == Max(0, Get(m, "start_time", Num(0)).v)
      end0   == Min(video_duration, Get(m, "end_time", Num(start0 + clip_min_sec)).v)
      short  == end0 - start0 < clip_min_sec
      start1 == IF short THEN Max(0, start0 - (clip_min_sec - (end0 - start0))) ELSE start0
      still  == short /\ end0 - start1 < clip_min_sec
      end1   == IF still THEN Min(video_duration, end0 + (clip_min_sec - (end0 - start1))) ELSE end0
      end2   == IF end1 - start1 > clip_max_sec THEN start1 + clip_max_sec ELSE end1
      end    == Min(video_duration, end2)
  IN  [ start_time |-> Round2(start1),
        end_time   |-> Round2(end),
        duration   |-> Round2(end - start1),
        hook_score |-> Min(100, Max(1, Get(m, "hook_score", Num(50)).v)),
        reason     |-> Get(m, "reason", "High engagement potential") ]

\* Mutant of Enforce: a moment still too short after its end was extended
\* keeps its start.
Enforce_no_pull_back(m, video_duration, clip_min_sec, clip_max_sec) ==
  LET start0 == Max(0, Get(m, "start_time", Num(0)).v)
      end0   == Min(video_duration, Get(m, "end_time", Num(start0 + clip_min_sec)).v)
      dur0   == end0 - start0
      end1   == IF dur0 < clip_min_sec
                THEN Min(video_duration, end0 + (clip_min_sec - dur0)) ELSE end0
      end2   == IF end1 - start0 > clip_max_sec THEN start0 + clip_max_sec ELSE end1
      end    == Min(video_duration, end2)
  IN  [ start_time |-> Round2(start0),
        end_time   |-> Round2(end),
        duration   |-> Round2(end - start0),
        hook_score |-> Min(100, Max(1, Get(m, "hook_score", Num(50)).v)),
        reason     |-> Get(m, "reason", "High engagement potential") ]

\* The hard duration enforcement applied to one moment of GPT's reply.
Enforce(m, video_duration, clip_min_sec, clip_max_sec) ==
  LET start0 == Max(0, Get(m, "start_time", Num(0)).v)
      end0   == Min(video_duration, Get(m, "end_time", Num(start0 + clip_min_sec)).v)
      dur0   == end0 - start0
      \* too short: extend end first, then pull start back
      short  == dur0 < clip_min_sec
      end1   == IF short THEN Min(video_duration, end0 + (clip_min_sec - dur0)) ELSE end0
      still  == short /\ end1 - start0 < clip_min_sec
      start1 == IF still THEN Max(0, start0 - (clip_min_sec - (end1 - start0))) ELSE start0
      dur1   == end1 - start1
      \* too long: trim from end
      end2   == IF dur1 > clip_max_sec THEN start1 + clip_max_sec ELSE end1
      \* final bounds check
      start  == Max(0, start1)
      end    == Min(video_duration, end2)
  IN  [ start_time |-> Round2(start),
        end_time   |-> Round2(end),
        duration   |-> Round2(end - start),
        hook_score |-> Min(100, Max(1, Get(m, "hook_score", Num(50)).v)),
        reason     |-> Get(m, "reason", "High engagement potential") ]

\* Whether the loop body raises on moment m: a conversion fails, or the moment
\* is too short and the message subtracts fields that are not numbers.
EnforceRaises(m, video_duration, clip_min_sec) ==
  LET start_time == Get(m, "start_time", Num(0))
      start == Max(0, start_time.v)
      end_time == Get(m, "end_time", Num(start + clip_min_sec))
      end == Min(video_duration, end_time.v)
  IN  \/ ~Converts(start_time)
      \/ ~Converts(end_time)
      \/ /\ end - start < clip_min_sec
         /\ ~Subtracts(Get(m, "end_time", Num(0)), Get(m, "start_time", Num(0)))
      \/ ~Converts(Get(m, "hook_score", Num(50)))

\* moments[:max_clips]
Take(s, n) == SubSeq(s, 1, Min(Len(s), Max(0, n)))

\* validated.sort(key=hook_score, reverse=True): stable, so equal scores keep
\* their order in the reply.
RECURSIVE SortByScore(_)
SortByScore(s) ==
  IF s = <<>> THEN <<>>
  ELSE LET front == SortByScore(SubSeq(s, 1, Len(s) - 1))
           x     == s[Len(s)]
           k     == Cardinality({i \in 1..Len(front) : front[i].hook_score >= x.hook_score})
       IN  SubSeq(front, 1, k) \o <<x>> \o SubSeq(front, k + 1, Len(front))

\* Whether the validation loop raises on GPT's parsed reply.
ValidationRaises(reply, max_clips, video_duration, clip_min_sec) ==
  \E i \in 1..Len(Take(reply, max_clips)) :
    EnforceRaises(reply[i], video_duration, clip_min_sec)

\* Mutant of Validated: the list is returned in the order of the reply.
Validated_unsorted(reply, max_clips, video_duration, clip_min_sec, clip_max_sec) ==
  LET cut == Take(reply, max_clips)
  IN  [i \in 1..Len(cut) |->
         Enforce(cut[i], video_duration, clip_min_sec, clip_max_sec)]

\* The list detect_viral_moments returns for GPT's parsed reply.
Validated(reply, max_clips, video_duration, clip_min_sec, clip_max_sec) ==
  LET cut == Take(reply, max_clips)
  IN  SortByScore([i \in 1..Len(cut) |->
                     Enforce(cut[i], video_duration, clip_min_sec, clip_max_sec)])

\* ------------------------------------------------- steps 4..9, clip by clip
ClipFile(i) == <<"clips", i>>
\* The .srt file of clip i, with the cues written to it.
SrtFile(i, cues) == <<"captioned_srt", i, cues>>
CaptionedFile(i) == <<"captioned", i>>
ThumbFile(i) == <<"thumbnails", i>>

\* Mutant of ExtractedClip: the except branch appends the clip as done.
ExtractedClip_failure_as_done(i, moment, ran, actual_dur) ==
  [ id |-> i, index |-> i,
    path |-> IF ran THEN "clips" ELSE None,
    start_time |-> moment.start_time,
    end_time |-> moment.end_time,
    duration |-> moment.duration,
    actual_duration |-> IF ran THEN Round2(actual_dur) ELSE 0,
    hook_score |-> moment.hook_score,
    reason |-> moment.reason,
    status |-> "done",
    thumb_path |-> None, title |-> None, video_url |-> None,
    thumbnail_url |-> None ]

\* The dict extract_clips appends for moment i: ran is ffmpeg and ffprobe both
\* returning, actual_dur is ffprobe's duration.
ExtractedClip(i, moment, ran, actual_dur) ==
  [ id |-> i, index |-> i,
    path |-> IF ran THEN "clips" ELSE None,
    start_time |-> moment.start_time,
    end_time |-> moment.end_time,
    duration |-> moment.duration,
    actual_duration |-> IF ran THEN Round2(actual_dur) ELSE 0,
    hook_score |-> moment.hook_score,
    reason |-> moment.reason,
    status |-> IF ran THEN "done" ELSE "error",
    thumb_path |-> None, title |-> None, video_url |-> None,
    thumbnail_url |-> None ]

\* Mutant of Skipped: the loops skip no clip.
Skipped_nothing(clip) == FALSE

\* The loops of steps 5, 6 and 8 skip a clip that is not done or has no path.
Skipped(clip) == clip.status # "done" \/ clip.path = None

\* seg["text"].strip().upper() of the texts of the transcripts.
Upper(text) ==
  CASE text = "a" -> "A"
    [] text = "b" -> "B"
    [] text = "c" -> "C"
    [] OTHER -> text

\* Mutant of clip_segments: a segment that only touches the clip is taken too.
RECURSIVE clip_segments_touching(_, _)
clip_segments_touching(clip, segments) ==
  IF segments = <<>> THEN <<>>
  ELSE LET seg == Head(segments)
           rest == clip_segments_touching(clip, Tail(segments))
       IN  IF seg.end >= clip.start_time /\ seg.start <= clip.end_time
           THEN << [ start |-> Max(0, seg.start - clip.start_time),
                     end |-> Min(clip.actual_duration, seg.end - clip.start_time),
                     text |-> seg.text ] >> \o rest
           ELSE rest

\* The SRT cues of a clip: the segments with end > clip start and start < clip
\* end, in transcript order, shifted to the clip and clamped.
RECURSIVE clip_segments(_, _)
clip_segments(clip, segments) ==
  IF segments = <<>> THEN <<>>
  ELSE LET seg == Head(segments)
           rest == clip_segments(clip, Tail(segments))
       IN  IF seg.end > clip.start_time /\ seg.start < clip.end_time
           THEN << [ start |-> Max(0, seg.start - clip.start_time),
                     end |-> Min(clip.actual_duration, seg.end - clip.start_time),
                     text |-> seg.text ] >> \o rest
           ELSE rest

\* The cues as add_captions writes them to the .srt file.
Written(clip, segments) ==
  LET cues == clip_segments(clip, segments)
  IN  [j \in 1..Len(cues) |-> [cues[j] EXCEPT !.text = Upper(@)]]

\* Whether step 5 runs ffmpeg on the clip at all.
Captionable(clip, segments) ==
  ~Skipped(clip) /\ clip_segments(clip, segments) # <<>>

\* Mutant of CaptionedClip: the except branch marks the clip as failed.
CaptionedClip_failure_marks_error(clip, segments, ran) ==
  IF Captionable(clip, segments)
  THEN IF ran THEN [clip EXCEPT !.path = "captioned"]
              ELSE [clip EXCEPT !.status = "error"]
  ELSE clip

\* add_captions on one clip: a failed ffmpeg is printed and the clip kept.
CaptionedClip(clip, segments, ran) ==
  IF Captionable(clip, segments) /\ ran
  THEN [clip EXCEPT !.path = "captioned"]
  ELSE clip

\* generate_thumbnails on one clip.
ThumbnailedClip(clip, ran) ==
  IF ~Skipped(clip) /\ ran
  THEN [clip EXCEPT !.thumb_path = "thumbnails"]
  ELSE clip

\* generate_titles_descriptions on one clip: ids is the keys of titles_map.
TitledClip(clip, ids) ==
  [clip EXCEPT !.title = IF clip.id \in ids THEN "gpt" ELSE "best_moment"]

\* Mutant of UploadedClip: a failed video upload marks the clip as failed.
UploadedClip_failure_marks_error(clip, video_ok, thumb_ok) ==
  IF Skipped(clip) THEN clip
  ELSE [clip EXCEPT
          !.status = IF video_ok THEN @ ELSE "error",
          !.video_url = IF video_ok THEN "url" ELSE @,
          !.thumbnail_url = IF clip.thumb_path # None /\ thumb_ok THEN "url" ELSE @]

\* upload_to_storage on one clip: each upload in a try of its own.
UploadedClip(clip, video_ok, thumb_ok) ==
  IF Skipped(clip) THEN clip
  ELSE [clip EXCEPT
          !.video_url = IF video_ok THEN "url" ELSE @,
          !.thumbnail_url = IF clip.thumb_path # None /\ thumb_ok THEN "url" ELSE @]

\* Mutant of CleanClip: the duration written is the measured one.
CleanClip_measured_duration(clip) ==
  [ id |-> clip.id, index |-> clip.index,
    title |-> IF clip.title = None THEN "clip_n" ELSE clip.title,
    start_time |-> clip.start_time, end_time |-> clip.end_time,
    duration |-> clip.actual_duration, actual_duration |-> clip.actual_duration,
    hook_score |-> clip.hook_score, reason |-> clip.reason,
    video_url |-> clip.video_url, thumbnail_url |-> clip.thumbnail_url,
    status |-> clip.status ]

\* finalize's clean_clips entry.
CleanClip(clip) ==
  [ id |-> clip.id, index |-> clip.index,
    title |-> IF clip.title = None THEN "clip_n" ELSE clip.title,
    start_time |-> clip.start_time, end_time |-> clip.end_time,
    duration |-> clip.duration, actual_duration |-> clip.actual_duration,
    hook_score |-> clip.hook_score, reason |-> clip.reason,
    video_url |-> clip.video_url, thumbnail_url |-> clip.thumbnail_url,
    status |-> clip.status ]

MapSeq(s, F(_)) == [i \in 1..Len(s) |-> F(s[i])]

\* ------------------------------------------------------------------ inputs
\* parse_clip_length: clip_length is the list of the parts of the string
\* between its "-" signs, a part that int() accepts as Str, any other as Text.
\* The pair is in seconds.
parse_clip_length(clip_length) ==
  IF /\ Len(clip_length) = 2
     /\ Converts(clip_length[1]) /\ Converts(clip_length[2])
     /\ clip_length[1].v > 0 /\ clip_length[2].v > 0
     /\ clip_length[2].v >= clip_length[1].v
  THEN <<clip_length[1].v, clip_length[2].v>>
  ELSE <<30, 60>>

\* clip_min_sec and clip_max_sec as run_pipeline sets them: the parsed pair,
\* each side replaced by the row's clip_min_seconds / clip_max_seconds when
\* that column is truthy (0 stands for a column that is null or 0).
Bounds(project) ==
  LET parsed == parse_clip_length(project.clip_length)
  IN  << Sec(IF project.clip_min_seconds # 0 THEN project.clip_min_seconds ELSE parsed[1]),
         Sec(IF project.clip_max_seconds # 0 THEN project.clip_max_seconds ELSE parsed[2]) >>

\* The settings run_pipeline holds in its locals after reading the row.
Settings(project) ==
  [ max_clips |-> project.max_clips, caption_style |-> project.caption_style,
    generate_thumbnails |-> project.generate_thumbnails,
    clip_min_sec |-> Bounds(project)[1], clip_max_sec |-> Bounds(project)[2] ]

\* The settings columns of a project row that run_pipeline reads.
SettingsOf(max_clips_set) ==
  [ max_clips : max_clips_set, caption_style : {"none", "karaoke"},
    generate_thumbnails : BOOLEAN,
    clip_length : {<<Str(30), Str(60)>>},
    clip_min_seconds : {0}, clip_max_seconds : {0} ]

\* A row whose clip_min_seconds is 60 and whose clip_max_seconds is 30.
SwappedSettings ==
  [ max_clips |-> 1, caption_style |-> "none", generate_thumbnails |-> FALSE,
    clip_length |-> <<Str(30), Str(60)>>,
    clip_min_seconds |-> 60, clip_max_seconds |-> 30 ]

\* ffprobe's duration of the downloaded video.
VideoDurations == {Sec(90)}

\* Whisper's result: no segment at all, or three that cover the first 70 s.
Transcripts ==
  { [full_text |-> "", segments |-> <<>>],
    [full_text |-> "a b c",
     segments |-> << [start |-> 0, end |-> Sec(20), text |-> "a"],
                     [start |-> Sec(20), end |-> Sec(50), text |-> "b"],
                     [start |-> Sec(50), end |-> Sec(70), text |-> "c"] >>] }

\* GPT's parsed reply: moments as it returns them, unvalidated.
MomentA == [start_time |-> Num(Sec(10)), end_time |-> Num(Sec(45)), hook_score |-> Num(80), reason |-> "a"]
MomentB == [start_time |-> Num(Sec(72)), end_time |-> Num(Sec(90)), hook_score |-> Num(150), reason |-> "b"]
MomentC == [start_time |-> Num(0), end_time |-> Num(Sec(200)), hook_score |-> Num(0), reason |-> "c"]
\* A moment whose start_time is null.
MomentNull == [start_time |-> Null, end_time |-> Num(Sec(45)), hook_score |-> Num(70), reason |-> "n"]
\* A moment with times to the millisecond: 0.004 s to 40.008 s.
Precise == [start_time |-> Num(4), end_time |-> Num(Sec(40) + 8), hook_score |-> Num(95), reason |-> "ms"]
\* A moment from 20 s to 50 s, without a score.
MomentD == [start_time |-> Num(Sec(20)), end_time |-> Num(Sec(50)), reason |-> "d"]
GptReplies ==
  { <<>>, <<MomentA, MomentB>>, <<MomentC, MomentA, MomentB>>, <<MomentNull>>,
    <<Precise>>, <<MomentD>> }

\* The length of the media in the downloaded file: the duration ffprobe reads
\* from its header, or 15 s only.
MediaLengths(duration) == { duration, Sec(15) }

\* ffprobe's duration of an extracted clip: ffmpeg was given -ss start_time and
\* -t duration + 0.5 and wrote that much, or what the file holds from there on.
ActualDurations(moment, media) ==
  { Min(moment.duration + AUDIO_BUFFER, media - moment.start_time) }

SourceFile == <<"source", 0>>
AudioFile == <<"audio", 0>>

\* ------------------------------------------------------------------- Init
InitThreads ==
  /\ response = 0
  /\ sb_client = FALSE
  /\ dirs = [p \in Projects |-> FALSE]
  /\ files = [p \in Projects |-> {}]
  /\ pc = [t \in Threads |-> "unstarted"]
  /\ pid = [t \in Threads |-> None]
  /\ strategy = [t \in Threads |-> 0]
  /\ cfg = [t \in Threads |-> <<>>]
  /\ dl = [t \in Threads |-> [duration |-> 0, media |-> 0]]
  /\ transcript = [t \in Threads |-> <<>>]
  /\ content = [t \in Threads |-> <<>>]
  /\ moments = [t \in Threads |-> <<>>]
  /\ clips = [t \in Threads |-> <<>>]
  /\ error_msg = [t \in Threads |-> None]

\* One request; project p1 has a row, project p2 has none.
Init ==
  /\ posts = SoloRequests
  /\ store \in [{"p1"} -> {NewRow(s) : s \in SettingsOf(1..MaxClips) \cup {SwappedSettings}}]
  /\ InitThreads

\* ------------------------------------------------------------ POST /shorts
\* Mutant of shorts_endpoint: the thread is started before the fields are tested.
shorts_endpoint_starts_anyway ==
  /\ \E r \in posts :
       /\ \A q \in posts : r <= q
       /\ posts' = posts \ {r}
       /\ \E project_id \in Projects \cup {""}, source_url \in {"", "url"} :
            /\ pc' = [pc EXCEPT ![r] = "fetch"]
            /\ pid' = [pid EXCEPT ![r] = project_id]
            /\ response' = IF project_id = "" \/ source_url = "" THEN 400 ELSE 200
  /\ UNCHANGED <<shared, locals>>

shorts_endpoint ==
  /\ \E r \in posts :
       /\ \A q \in posts : r <= q
       /\ posts' = posts \ {r}
       /\ \E project_id \in Projects \cup {""}, source_url \in {"", "url"} :
            IF project_id = "" \/ source_url = ""
            THEN /\ response' = 400
                 /\ UNCHANGED <<pc, pid>>
            ELSE \* threading.Thread(target=run_pipeline, ...).start()
                 /\ pc' = [pc EXCEPT ![r] = "fetch"]
                 /\ pid' = [pid EXCEPT ![r] = project_id]
                 /\ response' = 200
  /\ UNCHANGED <<shared, locals>>

\* ------------------------------------------------------------ run_pipeline
Goto(t, at) == pc' = [pc EXCEPT ![t] = at]

\* An exception reaching run_pipeline's except block: error_msg = str(e).
Raise(t, msg) ==
  /\ Goto(t, "up_error")
  /\ error_msg' = [error_msg EXCEPT ![t] = msg]

\* select("*").eq("id", project_id).single().execute()
fetch_project(t) ==
  /\ pc[t] = "fetch"
  /\ sb_client' = TRUE
  /\ \E executed \in BOOLEAN :
       IF executed /\ pid[t] \in DOMAIN store
       THEN /\ cfg' = [cfg EXCEPT ![t] = Settings(store[pid[t]].settings)]
            /\ Goto(t, "up_downloading")
       ELSE /\ Goto(t, "up_not_found")
            /\ UNCHANGED cfg
  /\ UNCHANGED <<posts, response, store, dirs, files, pid, strategy, dl, transcript, content,
                 moments, clips, error_msg>>

\* The fetch raised: update_progress(0, "error", "Project not found: ..."), return.
project_not_found(t) ==
  /\ pc[t] = "up_not_found"
  /\ sb_client' = TRUE
  /\ \E executed \in BOOLEAN :
       store' = update_progress(pid[t], 0, "error", "Project not found", executed)
  /\ Goto(t, "returned")
  /\ UNCHANGED <<posts, response, dirs, files, pid, locals>>

\* update_progress(project_id, pct, stage) ahead of a step.
checkpoint(t) ==
  /\ pc[t] \in Checkpoints
  /\ sb_client' = TRUE
  /\ \E executed \in BOOLEAN :
       store' = update_progress(pid[t], Checkpoint(pc[t]).pct,
                                Checkpoint(pc[t]).stage, None, executed)
  /\ Goto(t, Checkpoint(pc[t]).next)
  /\ UNCHANGED <<posts, response, dirs, files, pid, locals>>

\* The strategies download_video tries, in the order of the list.
NumStrategies == 3

\* Step 1, one pass of the loop over the strategies: subprocess.run returns
\* ("ok"), raises CalledProcessError ("exit": caught, the partial source.*
\* files are unlinked and the next strategy is tried) or raises anything else
\* ("raise": TimeoutExpired among them, which the loop does not catch).
download_video(t) ==
  /\ pc[t] = "download_video"
  /\ dirs' = [dirs EXCEPT ![pid[t]] = TRUE]
  /\ \E result \in {"ok", "exit", "raise"} :
       CASE result = "ok" ->
              /\ files' = [files EXCEPT ![pid[t]] = @ \cup {SourceFile}]
              /\ strategy' = [strategy EXCEPT ![t] = 0]
              /\ Goto(t, "convert_video")
              /\ UNCHANGED error_msg
         [] result = "exit" ->
              /\ files' = [files EXCEPT ![pid[t]] = @ \ {SourceFile}]
              /\ IF strategy[t] + 1 < NumStrategies
                 THEN /\ strategy' = [strategy EXCEPT ![t] = @ + 1]
                      /\ UNCHANGED <<pc, error_msg>>
                 ELSE /\ strategy' = [strategy EXCEPT ![t] = 0]
                      /\ Raise(t, "All download strategies failed")
         [] OTHER ->
              /\ strategy' = [strategy EXCEPT ![t] = 0]
              /\ \E msg \in Msgs : Raise(t, msg)
              /\ UNCHANGED files
  /\ UNCHANGED <<posts, response, store, sb_client, pid, cfg, dl, transcript,
                 content, moments, clips>>

\* Step 1 after the loop: the downloaded file is looked up and converted, the
\* audio extracted, the duration probed.
convert_video(t) ==
  /\ pc[t] = "convert_video"
  /\ IF SourceFile \in files[pid[t]]
     THEN \/ \E d \in VideoDurations : \E m \in MediaLengths(d) :
               /\ files' = [files EXCEPT ![pid[t]] = @ \cup {AudioFile}]
               /\ dl' = [dl EXCEPT ![t] = [duration |-> d, media |-> m]]
               /\ Goto(t, "up_duration")
               /\ UNCHANGED error_msg
          \* the conversion, the audio extraction or ffprobe failed
          \/ /\ \E msg \in Msgs : Raise(t, msg)
             /\ UNCHANGED <<files, dl>>
     ELSE /\ Raise(t, "Download appeared to succeed but no file found.")
          /\ UNCHANGED <<files, dl>>
  /\ UNCHANGED <<posts, response, store, sb_client, dirs, pid, strategy, cfg,
                 transcript, content, moments, clips>>

\* update({"source_duration_sec": int(dl["duration"])}), outside update_progress.
write_duration(t) ==
  /\ pc[t] = "up_duration"
  /\ sb_client' = TRUE
  /\ \/ /\ store' = TableUpdate(store, pid[t],
                                [source_duration_sec |-> dl[t].duration \div 1000])
        /\ Goto(t, "up_transcribing")
        /\ UNCHANGED error_msg
     \/ /\ \E msg \in Msgs : Raise(t, msg)
        /\ UNCHANGED store
  /\ UNCHANGED <<posts, response, dirs, files, pid, strategy, cfg, dl, transcript, content,
                 moments, clips>>

\* Step 2, and the removal of the audio file after it.
transcribe_audio(t) ==
  /\ pc[t] = "transcribe_audio"
  /\ \/ /\ AudioFile \in files[pid[t]]
        /\ \E tr \in Transcripts : transcript' = [transcript EXCEPT ![t] = tr]
        /\ files' = [files EXCEPT ![pid[t]] = @ \ {AudioFile}]
        /\ Goto(t, "up_analyzing")
        /\ UNCHANGED error_msg
     \/ /\ \E msg \in Msgs : Raise(t, msg)
        /\ UNCHANGED <<transcript, files>>
  /\ UNCHANGED <<posts, response, store, sb_client, dirs, pid, strategy, cfg, dl, content,
                 moments, clips>>

\* Step 3.
detect_viral_moments(t) ==
  /\ pc[t] = "detect_viral_moments"
  /\ \/ \E reply \in GptReplies :
          IF ValidationRaises(reply, cfg[t].max_clips, dl[t].duration,
                              cfg[t].clip_min_sec)
          THEN \* float() or int() raised on a field of the reply
               /\ Raise(t, "failed")
               /\ UNCHANGED moments
          ELSE /\ moments' = [moments EXCEPT ![t] =
                     Validated(reply, cfg[t].max_clips, dl[t].duration,
                               cfg[t].clip_min_sec, cfg[t].clip_max_sec)]
               /\ Goto(t, "up_clipping")
               /\ UNCHANGED error_msg
     \* the API call or json.loads raised
     \/ /\ \E msg \in Msgs : Raise(t, msg)
        /\ UNCHANGED moments
  /\ UNCHANGED <<posts, response, shared, pid, strategy, cfg, dl, transcript, content, clips>>

\* The file clip["path"] names.
PathFile(clip) ==
  IF clip.path = "captioned" THEN CaptionedFile(clip.id) ELSE ClipFile(clip.id)

Indices(s) == 1..Len(s)

\* Step 4, and the removal of the source video after it.  ffmpeg reads the
\* source file, so it fails for every clip when the file is gone.
extract_clips(t) ==
  /\ pc[t] = "extract_clips"
  /\ \/ /\ dirs[pid[t]]
        /\ \E ran \in [Indices(moments[t]) -> BOOLEAN] :
           \E actual \in [Indices(moments[t]) ->
                            UNION {ActualDurations(moments[t][i], dl[t].media) : i \in Indices(moments[t])}] :
             \* ffmpeg and ffprobe need the source file and media at start_time
             LET have == {i \in Indices(moments[t]) :
                            SourceFile \in files[pid[t]] /\ actual[i] > 0}
             IN  /\ \A i \in Indices(moments[t]) :
                      actual[i] \in ActualDurations(moments[t][i], dl[t].media)
                 /\ clips' = [clips EXCEPT ![t] =
                       [i \in Indices(moments[t]) |->
                          ExtractedClip(i, moments[t][i], ran[i] /\ i \in have, actual[i])]]
                 /\ files' = [files EXCEPT ![pid[t]] =
                       (@ \cup {ClipFile(i) : i \in {j \in have : ran[j]}})
                         \ {SourceFile}]
        /\ Goto(t, "up_captioning")
        /\ UNCHANGED error_msg
     \* out_dir.mkdir or the crop arithmetic raised, outside the per-clip try
     \/ /\ \E msg \in Msgs : Raise(t, msg)
        /\ UNCHANGED <<clips, files>>
  /\ UNCHANGED <<posts, response, store, sb_client, dirs, pid, strategy, cfg, dl,
                 transcript, content, moments>>

\* Mutant of AfterCaptions: step 6 runs whatever the setting.
AfterCaptions_always_thumbnails(t) ==
  IF cfg[t].generate_thumbnails THEN "up_thumbnails" ELSE "up_thumbnails"

AfterCaptions(t) ==
  IF cfg[t].generate_thumbnails THEN "up_thumbnails" ELSE "up_titles"

\* Step 5.  Each captionable clip gets its .srt; ffmpeg then burns it in.
add_captions(t) ==
  /\ pc[t] = "add_captions"
  /\ IF cfg[t].caption_style = "none"
     THEN /\ Goto(t, AfterCaptions(t))
          /\ UNCHANGED <<clips, files, error_msg>>
     ELSE \/ /\ dirs[pid[t]]
             /\ \E ran \in [Indices(clips[t]) -> BOOLEAN] :
                  LET segs == transcript[t].segments
                      todo == {i \in Indices(clips[t]) : Captionable(clips[t][i], segs)}
                      done == {i \in todo : ran[i] /\ PathFile(clips[t][i]) \in files[pid[t]]}
                  IN  /\ clips' = [clips EXCEPT ![t] =
                            [i \in Indices(clips[t]) |->
                               CaptionedClip(clips[t][i], segs, i \in done)]]
                      /\ files' = [files EXCEPT ![pid[t]] =
                            ((@ \cup {SrtFile(i, Written(clips[t][i], segs)) : i \in todo})
                               \cup {CaptionedFile(i) : i \in done})
                              \ {ClipFile(i) : i \in done}]
             /\ Goto(t, AfterCaptions(t))
             /\ UNCHANGED error_msg
          \* out_dir.mkdir or writing an .srt raised, outside the per-clip try
          \/ /\ \E msg \in Msgs : Raise(t, msg)
             /\ UNCHANGED <<clips, files>>
  /\ UNCHANGED <<posts, response, store, sb_client, dirs, pid, strategy, cfg, dl,
                 transcript, content, moments>>

\* Step 6.
generate_thumbnails(t) ==
  /\ pc[t] = "generate_thumbnails"
  /\ \/ /\ dirs[pid[t]]
        /\ \E ran \in [Indices(clips[t]) -> BOOLEAN] :
             LET done == {i \in Indices(clips[t]) :
                            /\ ~Skipped(clips[t][i])
                            /\ ran[i]
                            /\ PathFile(clips[t][i]) \in files[pid[t]]}
             IN  /\ clips' = [clips EXCEPT ![t] =
                       [i \in Indices(clips[t]) |-> ThumbnailedClip(clips[t][i], i \in done)]]
                 /\ files' = [files EXCEPT ![pid[t]] = @ \cup {ThumbFile(i) : i \in done}]
        /\ Goto(t, "up_titles")
        /\ UNCHANGED error_msg
     \/ /\ \E msg \in Msgs : Raise(t, msg)
        /\ UNCHANGED <<clips, files>>
  /\ UNCHANGED <<posts, response, store, sb_client, dirs, pid, strategy, cfg, dl,
                 transcript, content, moments>>

\* Step 7: ids are the clip ids GPT's reply has an entry for.
generate_titles_descriptions(t) ==
  /\ pc[t] = "generate_titles_descriptions"
  /\ \/ /\ \E ids \in SUBSET Indices(clips[t]) :
             clips' = [clips EXCEPT ![t] =
                         [i \in Indices(clips[t]) |-> TitledClip(clips[t][i], ids)]]
        /\ Goto(t, "up_uploading")
        /\ UNCHANGED error_msg
     \/ /\ \E msg \in Msgs : Raise(t, msg)
        /\ UNCHANGED clips
  /\ UNCHANGED <<posts, response, shared, pid, strategy, cfg, dl, transcript, content, moments>>

\* Step 8: an upload fails when the storage call raises or the file is gone.
upload_to_storage(t) ==
  /\ pc[t] = "upload_to_storage"
  /\ \E video_ok \in [Indices(clips[t]) -> BOOLEAN] :
     \E thumb_ok \in [Indices(clips[t]) -> BOOLEAN] :
       clips' = [clips EXCEPT ![t] =
                   [i \in Indices(clips[t]) |->
                      UploadedClip(clips[t][i],
                                   video_ok[i] /\ PathFile(clips[t][i]) \in files[pid[t]],
                                   thumb_ok[i] /\ ThumbFile(i) \in files[pid[t]])]]
  /\ Goto(t, "up_done")
  /\ UNCHANGED <<posts, response, shared, pid, strategy, cfg, dl, transcript, content, moments,
                 error_msg>>

\* The dict finalize writes.
FinalData(clip_list) ==
  [ status |-> "done", progress_pct |-> 100, progress_stage |-> "done",
    clips |-> << MapSeq(clip_list, CleanClip) >>, transcript |-> "text" ]

\* Step 9: the one table write of the steps that is not caught.
finalize(t) ==
  /\ pc[t] = "finalize"
  /\ sb_client' = TRUE
  /\ \/ /\ store' = TableUpdate(store, pid[t], FinalData(clips[t]))
        /\ Goto(t, "cleanup")
        /\ UNCHANGED error_msg
     \/ /\ \E msg \in Msgs : Raise(t, msg)
        /\ UNCHANGED store
  /\ UNCHANGED <<posts, response, dirs, files, pid, strategy, cfg, dl, transcript, content,
                 moments, clips>>

\* Mutant of report_error: the except block returns without cleanup.
report_error_without_cleanup(t) ==
  /\ pc[t] = "up_error"
  /\ sb_client' = TRUE
  /\ \E executed \in BOOLEAN :
       store' = update_progress(pid[t], 0, "error", error_msg[t], executed)
  /\ Goto(t, "finished")
  /\ UNCHANGED <<posts, response, dirs, files, pid, locals>>

\* except Exception: update_progress(project_id, 0, "error", error=error_msg)
report_error(t) ==
  /\ pc[t] = "up_error"
  /\ sb_client' = TRUE
  /\ \E executed \in BOOLEAN :
       store' = update_progress(pid[t], 0, "error", error_msg[t], executed)
  /\ Goto(t, "cleanup")
  /\ UNCHANGED <<posts, response, dirs, files, pid, locals>>

\* Mutant of cleanup: rmtree of WORK_DIR itself.
cleanup_whole_work_dir(t) ==
  /\ pc[t] = "cleanup"
  /\ dirs' = [p \in Projects |-> FALSE]
  /\ files' = [p \in Projects |-> {}]
  /\ Goto(t, "finished")
  /\ UNCHANGED <<posts, response, store, sb_client, pid, locals>>

\* cleanup(project_id): shutil.rmtree of WORK_DIR/<project_id>.
cleanup(t) ==
  /\ pc[t] = "cleanup"
  /\ dirs' = [dirs EXCEPT ![pid[t]] = FALSE]
  /\ files' = [files EXCEPT ![pid[t]] = {}]
  /\ Goto(t, "finished")
  /\ UNCHANGED <<posts, response, store, sb_client, pid, locals>>

run_pipeline(t) ==
  \/ fetch_project(t)
  \/ project_not_found(t)
  \/ checkpoint(t)
  \/ download_video(t)
  \/ convert_video(t)
  \/ write_duration(t)
  \/ transcribe_audio(t)
  \/ detect_viral_moments(t)
  \/ extract_clips(t)
  \/ add_captions(t)
  \/ generate_thumbnails(t)
  \/ generate_titles_descriptions(t)
  \/ upload_to_storage(t)
  \/ finalize(t)
  \/ report_error(t)
  \/ cleanup(t)

Next ==
  \/ shorts_endpoint
  \/ \E t \in Threads : run_pipeline(t)

Spec == Init /\ [][Next]_vars

\* Two requests; both projects have a row, with max_clips = 0.
InitConc ==
  /\ posts = ConcRequests
  /\ store \in [Projects -> {NewRow(s) : s \in {x \in SettingsOf({0}) : x.generate_thumbnails /\ x.caption_style = "karaoke"}}]
  /\ InitThreads

SpecConc == InitConc /\ [][Next]_vars

\* ------------------------------------------- step 3 on its own: validation
\* The utterances of a transcript of three segments.
Utterances ==
  << [start |-> 0, end |-> Sec(4), text |-> "Hello there."],
     [start |-> Sec(4), end |-> Sec(9), text |-> "This is the hook"],
     [start |-> Sec(9), end |-> Sec(14), text |-> "and here's why it matters."] >>

\* The length columns of a project row: clip_length "30-60"; "8-15"; "long",
\* "60-30" and "10-20-30", which parse_clip_length does not take;
\* clip_min_seconds = 60 with clip_max_seconds = 30.
ClipBounds ==
  { [clip_length |-> <<Str(30), Str(60)>>, clip_min_seconds |-> 0, clip_max_seconds |-> 0],
    [clip_length |-> <<Str(8), Str(15)>>, clip_min_seconds |-> 0, clip_max_seconds |-> 0],
    [clip_length |-> <<Text>>, clip_min_seconds |-> 0, clip_max_seconds |-> 0],
    [clip_length |-> <<Str(60), Str(30)>>, clip_min_seconds |-> 0, clip_max_seconds |-> 0],
    [clip_length |-> <<Str(10), Str(20), Str(30)>>, clip_min_seconds |-> 0, clip_max_seconds |-> 0],
    [clip_length |-> <<Str(30), Str(60)>>, clip_min_seconds |-> 60, clip_max_seconds |-> 30] }

\* ffprobe's duration of the source: none, 10.006 s, 90 s.
SourceDurations == {0, Sec(10) + 6, Sec(90)}

\* Moments GPT can return.
InUtterance == [start_time |-> Num(Sec(3)), end_time |-> Num(Sec(9)), hook_score |-> Num(80), reason |-> "hook"]
WholeSource == [start_time |-> Num(0), end_time |-> Num(Sec(10)), hook_score |-> Num(50), reason |-> "all"]
PastEnd == [start_time |-> Num(Sec(100)), end_time |-> Num(Sec(130)), hook_score |-> Num(60), reason |-> "late"]
Backwards == [start_time |-> Num(Sec(50)), end_time |-> Num(Sec(20)), hook_score |-> Num(90), reason |-> "back"]
Negative == [start_time |-> Num(-Sec(5)), end_time |-> Num(-Sec(1)), hook_score |-> Num(70), reason |-> "neg"]
NoEnd == [start_time |-> Num(Sec(20)), hook_score |-> Num(85), reason |-> "open"]
Stringy == [start_time |-> Str(Sec(10)), end_time |-> Str(Sec(20)), hook_score |-> Str(75), reason |-> "str"]
TextScore == [start_time |-> Num(Sec(10)), end_time |-> Num(Sec(45)), hook_score |-> Text, reason |-> "high"]
Early == [start_time |-> Num(Sec(10)), end_time |-> Num(Sec(20)), hook_score |-> Num(65), reason |-> "p"]
Later == [start_time |-> Num(Sec(25)), end_time |-> Num(Sec(50)), hook_score |-> Num(88), reason |-> "q"]

Candidates ==
  { InUtterance, WholeSource, PastEnd, Backwards, Negative, NoEnd, Precise,
    Stringy, MomentNull, TextScore, Early, Later }

\* GPT's parsed reply: up to one moment more than the largest max_clips.
Replies == UNION { [1..n -> Candidates] : n \in 0..(MaxClips + 1) }

\* Thread 1 stands at the validation loop of detect_viral_moments, steps 1 and
\* 2 behind it, with GPT's reply parsed.
InitRefine ==
  /\ posts = {}
  /\ response = 200
  /\ sb_client = TRUE
  /\ dirs = [p \in Projects |-> p = "p1"]
  /\ files = [p \in Projects |-> IF p = "p1" THEN {SourceFile} ELSE {}]
  /\ pc = [t \in Threads |-> IF t = 1 THEN "validate" ELSE "unstarted"]
  /\ pid = [t \in Threads |-> IF t = 1 THEN "p1" ELSE None]
  /\ strategy = [t \in Threads |-> 0]
  /\ \E s \in SettingsOf(0..MaxClips), b \in ClipBounds, d \in SourceDurations :
       LET settings == [s EXCEPT !.clip_length = b.clip_length,
                                 !.clip_min_seconds = b.clip_min_seconds,
                                 !.clip_max_seconds = b.clip_max_seconds]
       IN  /\ s.caption_style = "none" /\ ~s.generate_thumbnails
           /\ cfg = [t \in Threads |-> IF t = 1 THEN Settings(settings) ELSE <<>>]
           /\ dl = [t \in Threads |-> IF t = 1 THEN [duration |-> d, media |-> d]
                                    ELSE [duration |-> 0, media |-> 0]]
           /\ store = [p \in {"p1"} |->
                         [NewRow(settings) EXCEPT
                            !.progress_pct = 40, !.progress_stage = "analyzing",
                            !.source_duration_sec = d \div 1000]]
  /\ transcript = [t \in Threads |->
                     IF t = 1 THEN [full_text |-> "text", segments |-> Utterances]
                     ELSE <<>>]
  /\ \E reply \in Replies :
       content = [t \in Threads |-> IF t = 1 THEN reply ELSE <<>>]
  /\ moments = [t \in Threads |-> <<>>]
  /\ clips = [t \in Threads |-> <<>>]
  /\ error_msg = [t \in Threads |-> None]

\* The validation loop and the sort, applied to the parsed reply.
validate(t) ==
  /\ pc[t] = "validate"
  /\ IF ValidationRaises(content[t], cfg[t].max_clips, dl[t].duration,
                         cfg[t].clip_min_sec)
     THEN /\ Raise(t, "failed")
          /\ UNCHANGED moments
     ELSE /\ moments' = [moments EXCEPT ![t] =
                Validated(content[t], cfg[t].max_clips, dl[t].duration,
                          cfg[t].clip_min_sec, cfg[t].clip_max_sec)]
          /\ Goto(t, "validated")
          /\ UNCHANGED error_msg
  /\ UNCHANGED <<posts, response, shared, pid, strategy, cfg, dl, transcript, content, clips>>

\* A validated moment as a moment of a reply, its three time fields as stored.
AsMoment(v) ==
  [ start_time |-> Num(v.start_time), end_time |-> Num(v.end_time),
    duration |-> Num(v.duration), hook_score |-> Num(v.hook_score),
    reason |-> v.reason ]

\* The loop body applied once more, to a moment it has returned.
revalidate(t) ==
  /\ pc[t] = "validated"
  /\ \E i \in Indices(moments[t]) :
       /\ content' = [content EXCEPT ![t] = << AsMoment(moments[t][i]) >>]
       /\ moments' = [moments EXCEPT ![t] =
             << Enforce(AsMoment(moments[t][i]), dl[t].duration,
                        cfg[t].clip_min_sec, cfg[t].clip_max_sec) >>]
  /\ Goto(t, "revalidated")
  /\ UNCHANGED <<posts, response, shared, pid, strategy, cfg, dl, transcript, clips, error_msg>>

NextRefine == \E t \in Threads : validate(t) \/ revalidate(t)

SpecRefine == InitRefine /\ [][NextRefine]_vars

\* ================================================================== claims
Rows == DOMAIN store
Started(t) == pc[t] # "unstarted"
\* run_pipeline has returned: after cleanup, or early after a failed fetch.
Returned(t) == pc[t] \in {"finished", "returned"}
InFlight(t) == Started(t) /\ ~Returned(t)
\* The thread is in or past run_pipeline's except block.
Failed(t) == error_msg[t] # None
\* run_pipeline has returned, or has only cleanup left.
Over(t) == pc[t] \in {"cleanup", "finished"}

\* The place of a progress_stage value in the order Pending, Downloading,
\* Transcribing, Analyzing, Clipping, Captioning, Thumbnailing, TitleGeneration,
\* Uploading, Finalizing, Done.
StageRank(stage) ==
  CASE stage = "pending" -> 0
    [] stage = "downloading" -> 1
    [] stage = "transcribing" -> 2
    [] stage = "analyzing" -> 3
    [] stage = "clipping" -> 4
    [] stage = "captioning" -> 5
    [] stage = "thumbnails" -> 6
    [] stage = "uploading" -> 8
    [] stage = "done" -> 10
    [] OTHER -> 11

\* C1: the stage values a run persists follow the strict linear order: a write
\* that changes the row's stage moves it to a later stage of the order, or to
\* error.
C1_StageOrderNeverGoesBack ==
  [][\A p \in Rows :
       store'[p].progress_stage # store[p].progress_stage
         => \/ store'[p].progress_stage = "error"
            \/ StageRank(store'[p].progress_stage) > StageRank(store[p].progress_stage)]_vars

\* C2: once a stage has failed and the except block has run, the row holds
\* stage error with progress 0 and the message of the exception.
C2_FailurePersistsError ==
  \A t \in Threads :
    (Over(t) /\ Failed(t) /\ pid[t] \in Rows)
      => /\ store[pid[t]].progress_stage = "error"
         /\ store[pid[t]].progress_pct = 0
         /\ error_msg[t] # "" => store[pid[t]].error_message = error_msg[t]

\* C3: a row in the error stage carries a non-empty error message and the
\* error status.
C3_ErrorCarriesMessage ==
  \A p \in Rows :
    store[p].progress_stage = "error"
      => /\ store[p].error_message \notin {None, ""}
         /\ store[p].status = "error"

\* C4: when run_pipeline has returned, the row of its project holds stage done
\* or stage error.
C4_ReturnedRunIsTerminal ==
  \A t \in Threads :
    (Returned(t) /\ pid[t] \in Rows)
      => store[pid[t]].progress_stage \in {"done", "error"}

\* C5: once a row's stage is done or error, no write changes its stage,
\* progress, clips or error message.
C5_TerminalRowIsFrozen ==
  [][\A p \in Rows :
       store[p].progress_stage \in {"done", "error"}
         => /\ store'[p].progress_stage = store[p].progress_stage
            /\ store'[p].progress_pct = store[p].progress_pct
            /\ store'[p].clips = store[p].clips
            /\ store'[p].error_message = store[p].error_message]_vars

\* C6: at most one pipeline thread is in flight for a project id.
C6_OneRunPerProject ==
  \A t, u \in Threads :
    (t # u /\ InFlight(t) /\ InFlight(u)) => pid[t] # pid[u]

\* ------------------------------------------------------------------ C7
\* No other thread has, or has had, the project id of thread t.
Alone(t) == Started(t) /\ \A u \in Threads \ {t} : pid[u] # pid[t]

\* What a run put in its working directory is there when it comes to read it.
C7_DiskIntact ==
  \A t \in Threads :
    Alone(t) =>
      /\ pc[t] \in {"up_duration", "up_transcribing", "transcribe_audio"}
           => dirs[pid[t]] /\ {SourceFile, AudioFile} \subseteq files[pid[t]]
      /\ pc[t] \in {"up_analyzing", "detect_viral_moments", "up_clipping", "extract_clips"}
           => dirs[pid[t]] /\ SourceFile \in files[pid[t]]

\* The step is one of thread t: its position changes, or its place in the
\* loop over the download strategies.
C7_Moves(t) == pc'[t] # pc[t] \/ strategy'[t] # strategy[t]

\* A step in which no thread of project p moves leaves p's row, directory and
\* files as they are, and a thread's locals change only in its own steps.
C7_Frame ==
  /\ \A p \in Projects :
       (\A t \in Threads : pid'[t] = p => ~C7_Moves(t))
         => /\ p \in Rows => store'[p] = store[p]
            /\ files'[p] = files[p]
            /\ dirs'[p] = dirs[p]
  /\ \A t \in Threads :
       ~C7_Moves(t)
         => /\ pid'[t] = pid[t] /\ cfg'[t] = cfg[t] /\ dl'[t] = dl[t]
            /\ transcript'[t] = transcript[t] /\ moments'[t] = moments[t]
            /\ clips'[t] = clips[t] /\ error_msg'[t] = error_msg[t]

\* C7: runs with distinct project ids share no run state: whatever the
\* interleaving, a run's row, working directory and locals are touched by its
\* own steps only, and the cleanup or partial-download deletion of another run
\* never removes one of its files.
C7_RunsAreIsolated == []C7_DiskIntact /\ [][C7_Frame]_vars

\* One run has finished and cleaned up while a run of another project still
\* holds its downloaded files.
C7_Witness ==
  \E t, u \in Threads :
    /\ pid[t] # pid[u] /\ Started(t) /\ Started(u)
    /\ pc[t] = "finished" /\ ~Failed(t) /\ store[pid[t]].status = "done"
    /\ pc[u] = "transcribe_audio"
    /\ {SourceFile, AudioFile} \subseteq files[pid[u]]

\* ------------------------------------------------------------------ C8
PastExtract ==
  { "up_captioning", "add_captions", "up_thumbnails", "generate_thumbnails",
    "up_titles", "generate_titles_descriptions", "up_uploading",
    "upload_to_storage", "up_done", "finalize" }

\* run_pipeline came through finalize without an exception.
Succeeded(t) == Over(t) /\ ~Failed(t) /\ Started(t)

\* One entry per moment, in order; a clip whose extraction failed has status
\* error, no file and no URL; any other is done and has its file.
C8_ClipsAfterExtract ==
  \A t \in Threads :
    (pc[t] \in PastExtract \/ Succeeded(t)) =>
      /\ Len(clips[t]) = Len(moments[t])
      /\ \A i \in Indices(clips[t]) :
           LET c == clips[t][i]
               m == moments[t][i]
           IN  /\ c.id = i /\ c.index = i
               /\ c.start_time = m.start_time /\ c.end_time = m.end_time
               /\ c.duration = m.duration /\ c.hook_score = m.hook_score
               /\ c.status \in {"done", "error"}
               /\ c.status = "error" <=> c.path = None
               /\ c.status = "error"
                    => /\ c.video_url = None /\ c.thumbnail_url = None
                       /\ c.thumb_path = None /\ c.actual_duration = 0
               /\ c.status = "done"
                    => c.actual_duration \in {Round2(d) : d \in ActualDurations(m, dl[t].media)}

\* The run that came through finalize left status done and the whole list.
C8_FinalState ==
  \A t \in Threads :
    (Succeeded(t) /\ pid[t] \in Rows) =>
      /\ store[pid[t]].status = "done"
      /\ store[pid[t]].progress_stage = "done"
      /\ store[pid[t]].progress_pct = 100
      /\ store[pid[t]].clips = << MapSeq(clips[t], CleanClip) >>
      /\ Len(store[pid[t]].clips[1]) = Len(moments[t])

\* C8: a clip whose extraction fails is recorded with status error and no
\* media URL and does not stop the run: the list keeps one entry per refined
\* clip, the other clips are done, and the run that meets no other failure
\* ends with status done and the whole list in its row.
C8_ExtractionFailureNotFatal == C8_ClipsAfterExtract /\ C8_FinalState

\* A finished run with status done whose first clip failed to extract and
\* whose second clip was extracted and uploaded.
C8_Witness ==
  \E t \in Threads :
    /\ pc[t] = "finished" /\ ~Failed(t) /\ pid[t] \in Rows
    /\ store[pid[t]].status = "done"
    /\ Len(store[pid[t]].clips[1]) = 2
    /\ store[pid[t]].clips[1][1].status = "error"
    /\ store[pid[t]].clips[1][1].video_url = None
    /\ store[pid[t]].clips[1][2].status = "done"
    /\ store[pid[t]].clips[1][2].video_url = "url"

\* ------------------------------------------------------------------ C9
PastCaption ==
  { "up_thumbnails", "generate_thumbnails", "up_titles",
    "generate_titles_descriptions", "up_uploading", "upload_to_storage",
    "up_done", "finalize" }
PastThumb == PastCaption \ {"up_thumbnails", "generate_thumbnails"}

\* Step 5 ran ffmpeg on clip i and it failed: the clip had a file and cues and
\* still points at the uncaptioned file.
CaptionFailed(t, i) ==
  /\ pc[t] \in PastCaption
  /\ cfg[t].caption_style # "none"
  /\ clips[t][i].path = "clips"
  /\ clip_segments(clips[t][i], transcript[t].segments) # <<>>

\* Step 6 ran ffmpeg on clip i and it failed: the clip has a file and no
\* thumbnail.
ThumbFailed(t, i) ==
  /\ pc[t] \in PastThumb
  /\ cfg[t].generate_thumbnails
  /\ clips[t][i].path # None
  /\ clips[t][i].thumb_path = None

\* C9 as stated: a clip whose captioning or thumbnailing call failed is marked
\* status error.
C9_RenderFailureMarksError ==
  \A t \in Threads : \A i \in Indices(clips[t]) :
    (CaptionFailed(t, i) \/ ThumbFailed(t, i)) => clips[t][i].status = "error"

\* Steps 5 and 6 leave the list's length and every clip's status as they were.
C9_StepKeepsStatus ==
  \A t \in Threads :
    (pc[t] \in {"add_captions", "generate_thumbnails"} /\ pc'[t] # pc[t])
      => /\ Len(clips'[t]) = Len(clips[t])
         /\ \A i \in Indices(clips[t]) : clips'[t][i].status = clips[t][i].status

\* C9 as amended: a clip whose captioning or thumbnailing call failed keeps
\* status done (and its uncaptioned file, or no thumbnail); steps 5 and 6
\* change no clip's status and drop no clip.
C9_RenderFailureKeepsDone ==
  /\ [](\A t \in Threads : \A i \in Indices(clips[t]) :
          (CaptionFailed(t, i) \/ ThumbFailed(t, i))
            => clips[t][i].status = "done" /\ clips[t][i].video_url \in {None, "url"})
  /\ [][C9_StepKeepsStatus]_vars

\* Captioning failed for clip 1 and went on to caption clip 2; thumbnailing
\* failed for clip 2 and the run went on to upload both.
C9_Witness ==
  \E t \in Threads :
    /\ pc[t] = "up_done" /\ Len(clips[t]) = 2
    /\ CaptionFailed(t, 1) /\ clips[t][2].path = "captioned"
    /\ ThumbFailed(t, 2) /\ clips[t][1].thumb_path # None
    /\ clips[t][1].video_url = "url" /\ clips[t][2].video_url = "url"

\* ------------------------------------------------------------------ C10
\* A clip with its two URL fields blanked: everything an upload must not touch.
SansUrls(clip) == [clip EXCEPT !.video_url = None, !.thumbnail_url = None]

\* C10: step 8 never raises: whatever upload fails, the run goes on to the
\* checkpoint before finalize, every clip keeps all its fields but the two
\* URLs, a URL is set or left absent, and a skipped clip is left as it is.
C10_UploadStep ==
  \A t \in Threads :
    (pc[t] = "upload_to_storage" /\ pc'[t] # pc[t])
      => /\ pc'[t] = "up_done"
         /\ error_msg'[t] = None
         /\ Len(clips'[t]) = Len(clips[t])
         /\ \A i \in Indices(clips[t]) :
              /\ SansUrls(clips'[t][i]) = SansUrls(clips[t][i])
              /\ clips'[t][i].video_url \in {None, "url"}
              /\ clips'[t][i].thumbnail_url \in {None, "url"}
              /\ clips'[t][i].thumbnail_url = "url" => clips[t][i].thumb_path # None
              /\ Skipped(clips[t][i]) => clips'[t][i] = clips[t][i]

C10_UploadFailureNotFatal == [][C10_UploadStep]_vars

\* A finished run with status done: clip 1 lost its video upload and kept its
\* thumbnail URL, clip 2 lost its thumbnail upload and kept its video URL.
C10_Witness ==
  \E t \in Threads :
    /\ pc[t] = "finished" /\ ~Failed(t) /\ pid[t] \in Rows
    /\ store[pid[t]].status = "done"
    /\ Len(clips[t]) = 2
    /\ clips[t][1].status = "done" /\ clips[t][1].thumb_path # None
    /\ clips[t][1].video_url = None /\ clips[t][1].thumbnail_url = "url"
    /\ clips[t][2].status = "done" /\ clips[t][2].thumb_path # None
    /\ clips[t][2].video_url = "url" /\ clips[t][2].thumbnail_url = None
    /\ store[pid[t]].clips[1][1].thumbnail_url = "url"
    /\ store[pid[t]].clips[1][2].video_url = "url"

\* ------------------------------------------------------------------ C11
\* The moments of the reply the validation loop looks at.
Cut(t) == Take(content[t], cfg[t].max_clips)

\* Every field the loop reads of every such moment is a JSON number.
NumericCut(t) ==
  \A i \in Indices(Cut(t)) : \A k \in {"start_time", "end_time", "hook_score"} :
    k \in DOMAIN Cut(t)[i] => Cut(t)[i][k].type = "number"

BoundsOrdered(t) == cfg[t].clip_min_sec <= cfg[t].clip_max_sec

C12_PersistedClipConsistent ==
  \A t \in Threads :
    (Succeeded(t) /\ pid[t] \in Rows /\ store[pid[t]].clips # <<>>)
      => \A i \in Indices(store[pid[t]].clips[1]) :
           LET c == store[pid[t]].clips[1][i]
           IN  /\ 0 <= c.start_time
               /\ c.start_time <= c.end_time
               /\ c.end_time <= dl[t].duration
               /\ c.duration = c.end_time - c.start_time

\* ------------------------------------------------------------------ C13
\* C13: with video_duration <= 0 or clip_min_sec > clip_max_sec validation
\* raises, so it returns moments only when neither is the case.
C13_InvalidRangeRaises ==
  \A t \in Threads :
    (pc[t] = "validated" /\ moments[t] # <<>>)
      => dl[t].duration > 0 /\ BoundsOrdered(t)

\* ------------------------------------------------------------------ C14
\* C14: with video_duration > 0 and clip_min_sec <= clip_max_sec validation
\* raises for no reply: a moment with a missing, null, non-numeric or
\* string-typed field is clamped or defaulted to a clip.
C14_MalformedNeverRaises ==
  \A t \in Threads :
    (dl[t].duration > 0 /\ BoundsOrdered(t))
      => /\ pc[t] # "up_error"
         /\ pc[t] = "validated" => Len(moments[t]) = Len(Cut(t))

\* ------------------------------------------------------------------ C15
\* The intervals of two moments intersect (half-open).
Overlap(a, b) == a.start_time < b.end_time /\ b.start_time < a.end_time

\* C15: no two moments of the list detect_viral_moments returns to the render
\* steps overlap in time: of two that would, only the higher-scored is kept.
C15_NoOverlapReturned ==
  \A t \in Threads :
    pc[t] = "validated"
      => \A i, j \in Indices(moments[t]) :
           i # j => ~Overlap(moments[t][i], moments[t][j])

\* ------------------------------------------------------------------ C16
\* The score validation gives a moment of the reply.
ScoreOf(m) == Min(100, Max(1, Get(m, "hook_score", Num(50)).v))

\* C16: the moments of the reply that truncation to max_clips drops score no
\* higher than the moments it keeps.
C16_TruncationAfterRanking ==
  \A t \in Threads :
    (pc[t] = "validated" /\ Len(content[t]) > cfg[t].max_clips)
      => \A i \in Indices(content[t]) \ Indices(Cut(t)) : \A j \in Indices(Cut(t)) :
           Converts(Get(content[t][i], "hook_score", Num(50)))
             => ScoreOf(content[t][i]) <= ScoreOf(content[t][j])

\* ------------------------------------------------------------------ C17
\* C17: the list detect_viral_moments returns has at most max_clips entries
\* and is in non-increasing order of hook_score.
C17_AtMostMaxClipsSorted ==
  \A t \in Threads :
    pc[t] = "validated"
      => /\ Len(moments[t]) <= cfg[t].max_clips
         /\ \A i, j \in Indices(moments[t]) :
              i < j => moments[t][i].hook_score >= moments[t][j].hook_score

\* A reply of three moments in rising score order and max_clips = 2: the first
\* two are returned, the higher-scored first.
C17_Witness ==
  /\ pc[1] = "validated" /\ cfg[1].max_clips = 2
  /\ content[1] = <<WholeSource, PastEnd, Backwards>>
  /\ Len(moments[1]) = 2
  /\ moments[1][1].hook_score = 60 /\ moments[1][2].hook_score = 50

\* ------------------------------------------------------------------ C18
SegmentStarts(t) ==
  { transcript[t].segments[k].start : k \in Indices(transcript[t].segments) }
SegmentEnds(t) ==
  { transcript[t].segments[k].end : k \in Indices(transcript[t].segments) }

\* C18: with a transcript that has segments, every returned moment starts at
\* the start of a segment and ends at the end of one; the moment (3 s, 9 s)
\* with clip_min_sec 8 and clip_max_sec 15 over segments (0,4), (4,9), (9,14)
\* comes back starting at 0 or 4 s and ending at 14 s.
C18_CutsOnSegmentBoundaries ==
  \A t \in Threads :
    (pc[t] = "validated" /\ transcript[t].segments # <<>>)
      => /\ \A i \in Indices(moments[t]) :
              /\ moments[t][i].start_time \in SegmentStarts(t)
              /\ moments[t][i].end_time \in SegmentEnds(t)
         /\ ( /\ content[t] = <<InUtterance>> /\ cfg[t].max_clips >= 1
              /\ cfg[t].clip_min_sec = Sec(8) /\ cfg[t].clip_max_sec = Sec(15)
              /\ dl[t].duration >= Sec(14) )
              => /\ moments[t][1].start_time \in {0, Sec(4)}
                 /\ moments[t][1].end_time = Sec(14)

\* ------------------------------------------------------------------ C19
\* The moment fed back lies in the source and its stored duration is within
\* the bounds.
ValidClip(t, m) ==
  /\ 0 <= m.start_time.v /\ m.start_time.v <= m.end_time.v
  /\ m.end_time.v <= dl[t].duration
  /\ cfg[t].clip_min_sec <= m.duration.v /\ m.duration.v <= cfg[t].clip_max_sec

\* C19: validating a returned moment that lies in the source and has a
\* duration within the bounds returns the same start_time, end_time and
\* duration.
C19_RevalidationChangesNothing ==
  \A t \in Threads :
    (pc[t] = "revalidated" /\ ValidClip(t, content[t][1]))
      => /\ moments[t][1].start_time = content[t][1].start_time.v
         /\ moments[t][1].end_time = content[t][1].end_time.v
         /\ moments[t][1].duration = content[t][1].duration.v

\* ------------------------------------------------------------------ C20
\* C20: while a run that has met no exception is at a step, the row holds the
\* checkpoint of that step (5, 20, 40, 55, 70, 80, 85, 90, 98 in this order,
\* 80 only with thumbnails), and once it is through finalize the row holds 100.
C20_CheckpointBeforeStage ==
  \A t \in Threads :
    (pid[t] \in Rows /\ ~Failed(t))
      => /\ \A at \in Checkpoints :
              pc[t] = Checkpoint(at).next
                => /\ store[pid[t]].progress_pct = Checkpoint(at).pct
                   /\ store[pid[t]].progress_stage = Checkpoint(at).stage
         /\ Succeeded(t) => store[pid[t]].progress_pct = 100

\* ------------------------------------------------------------------ C21
\* run_pipeline has read the settings of the project row.
Configured(t) == "generate_thumbnails" \in DOMAIN cfg[t]
ThumbnailsOff(t) == Configured(t) /\ ~cfg[t].generate_thumbnails

\* With generate_thumbnails off the run is never at step 6, the row never
\* shows its checkpoint, and no clip has a thumbnail or a thumbnail URL, in the
\* thread or in the row.
C21_NoThumbnailStage ==
  \A t \in Threads :
    ThumbnailsOff(t)
      => /\ pc[t] \notin {"up_thumbnails", "generate_thumbnails"}
         /\ pid[t] \in Rows
              => /\ store[pid[t]].progress_stage # "thumbnails"
                 /\ store[pid[t]].progress_pct # 80
                 /\ store[pid[t]].clips # <<>>
                      => \A i \in Indices(store[pid[t]].clips[1]) :
                           store[pid[t]].clips[1][i].thumbnail_url = None
         /\ \A i \in Indices(clips[t]) :
              clips[t][i].thumb_path = None /\ clips[t][i].thumbnail_url = None

\* The position that follows each position from the titles checkpoint on,
\* when no exception is raised.
C21_Following(at) ==
  CASE at = "up_titles" -> "generate_titles_descriptions"
    [] at = "generate_titles_descriptions" -> "up_uploading"
    [] at = "up_uploading" -> "upload_to_storage"
    [] at = "upload_to_storage" -> "up_done"
    [] at = "up_done" -> "finalize"
    [] at = "finalize" -> "cleanup"
    [] OTHER -> at

\* After step 5 comes the titles checkpoint (the thumbnails checkpoint with
\* thumbnails on), and from there on every position is followed by the same
\* position, with the same checkpoint written, whatever the setting.
C21_SameOrder ==
  \A t \in Threads :
    (Configured(t) /\ pc'[t] # pc[t] /\ pc'[t] # "up_error")
      => /\ pc[t] = "add_captions"
              => pc'[t] = IF cfg[t].generate_thumbnails THEN "up_thumbnails"
                          ELSE "up_titles"
         /\ pc[t] = "generate_thumbnails" => pc'[t] = "up_titles"
         /\ C21_Following(pc[t]) # pc[t] => pc'[t] = C21_Following(pc[t])
         /\ (pc[t] \in {"up_titles", "up_uploading", "up_done"}
               /\ store'[pid[t]] # store[pid[t]])
              => /\ store'[pid[t]].progress_pct = Checkpoint(pc[t]).pct
                 /\ store'[pid[t]].progress_stage = Checkpoint(pc[t]).stage

\* C21: with thumbnails disabled step 6 is never entered and no clip gets a
\* thumbnail URL, and titles, upload and finalize follow in the same order with
\* the same checkpoints as with thumbnails enabled.
C21_ThumbnailsSkipped == []C21_NoThumbnailStage /\ [][C21_SameOrder]_vars

\* A run with thumbnails off that went through to done: its clip was uploaded
\* and has no thumbnail URL.
C21_Witness ==
  \E t \in Threads :
    /\ ThumbnailsOff(t) /\ pc[t] = "finished" /\ ~Failed(t)
    /\ store[pid[t]].progress_pct = 100 /\ store[pid[t]].clips # <<>>
    /\ Len(store[pid[t]].clips[1]) = 2
    /\ store[pid[t]].clips[1][1].video_url = "url"
    /\ store[pid[t]].clips[1][1].thumbnail_url = None

\* ------------------------------------------------------------------ C22
\* C22: the strategies are tried one after the other in the order of the
\* list, the loop is left for the conversion at the first that succeeds, and
\* download_video raises only from the pass that tries the last strategy:
\* while strategies remain untried no failure of one ends the download.
C22_FailsOnlyAfterLastStrategy ==
  [][\A t \in Threads :
       pc[t] = "download_video"
         => /\ strategy'[t] \in {strategy[t], strategy[t] + 1, 0}
            /\ pc'[t] \in {"download_video", "convert_video", "up_error"}
            /\ pc'[t] = "up_error" => strategy[t] + 1 = NumStrategies]_vars

\* ------------------------------------------------------------------ C23
\* The positions of run_pipeline in the order of its text; the calls of the
\* nine collaborators are nine of them.
C23_Order ==
  << "unstarted", "fetch", "up_not_found", "up_downloading", "download_video",
     "convert_video", "up_duration", "up_transcribing", "transcribe_audio",
     "up_analyzing", "detect_viral_moments", "up_clipping", "extract_clips",
     "up_captioning", "add_captions", "up_thumbnails", "generate_thumbnails",
     "up_titles", "generate_titles_descriptions", "up_uploading",
     "upload_to_storage", "up_done", "finalize", "up_error", "cleanup",
     "finished", "returned" >>

C23_Place(at) == CHOOSE k \in Indices(C23_Order) : C23_Order[k] = at

\* C23: a run never goes back: every step that changes a thread's position
\* moves it to a later position, so each collaborator is called at most once
\* in a run and never after a later one was called.
C23_NoStageTwice ==
  [][\A t \in Threads :
       /\ pc[t] \in { C23_Order[k] : k \in Indices(C23_Order) }
       /\ pc'[t] # pc[t] => C23_Place(pc'[t]) > C23_Place(pc[t])]_vars

\* A run that called all nine collaborators and finished with status done.
C23_Witness ==
  \E t \in Threads :
    /\ pc[t] = "finished" /\ ~Failed(t) /\ pid[t] \in Rows
    /\ cfg[t].generate_thumbnails /\ cfg[t].caption_style # "none"
    /\ store[pid[t]].status = "done" /\ Len(clips[t]) = 2
    /\ \A i \in Indices(clips[t]) :
         /\ clips[t][i].path = "captioned" /\ clips[t][i].thumb_path # None
         /\ clips[t][i].title = "gpt" /\ clips[t][i].video_url = "url"

\* ------------------------------------------------------------------ C24
\* C24: once run_pipeline has returned, after finalize or through the except
\* block, and no other run of the same project is in flight, the working
\* directory of the project and every file in it (source, audio, clips,
\* captions, thumbnails) are gone.
C24_WorkDirRemoved ==
  \A t \in Threads :
    (Returned(t) /\ \A u \in Threads : pid[u] = pid[t] => Returned(u))
      => ~dirs[pid[t]] /\ files[pid[t]] = {}

\* A run that failed after its clips were extracted and captioned, and has
\* returned: the row shows the error and nothing is left on disk.
C24_Witness ==
  \E t \in Threads :
    /\ pc[t] = "finished" /\ Failed(t) /\ pid[t] \in Rows
    /\ store[pid[t]].status = "error"
    /\ Len(clips[t]) = 2 /\ clips[t][1].path = "captioned"
    /\ ~dirs[pid[t]] /\ files[pid[t]] = {}

\* ------------------------------------------------------------------ C25
\* The start and end of a moment of the reply after the clamp to the source.
ClampedStart(m) == Max(0, Get(m, "start_time", Num(0)).v)
ClampedEnd(t, m) ==
  Min(dl[t].duration, Get(m, "end_time", Num(ClampedStart(m) + cfg[t].clip_min_sec)).v)

\* What the claim says of moment m of the reply and the moment v returned for
\* it, when m is too short after the clamp.
C25_EndFirst(t, m, v) ==
  LET start == ClampedStart(m)
      end == ClampedEnd(t, m)
      deficit == cfg[t].clip_min_sec - (dl[t].duration - start)
  IN  end - start < cfg[t].clip_min_sec
        => /\ v.end_time >= Round2(end)
           /\ v.start_time >= 0
           /\ IF v.end_time = Round2(dl[t].duration) /\ deficit > 0
              THEN v.start_time = Round2(Max(0, start - deficit))
              ELSE v.start_time = Round2(start)

\* C25: a moment shorter than clip_min_sec after the clamp has its end
\* extended and never decreased; its start is unchanged unless the end has
\* reached video_duration with the clip still short, and then it is pulled
\* back by the remaining deficit, not below 0.  (clip_min_sec <= clip_max_sec,
\* so that the trim of a too-long clip does not follow.)
C25_ExtendEndBeforeStart ==
  \A t \in Threads :
    (pc[t] = "validated" /\ BoundsOrdered(t))
      => \A i \in Indices(Cut(t)) : \A j \in Indices(moments[t]) :
           moments[t][j].reason = Cut(t)[i].reason
             => C25_EndFirst(t, Cut(t)[i], moments[t][j])

\* In a source of 90 s with clip_min_sec 30, (10, 20) came back as (10, 40),
\* its start kept, and (100, 130) as (60, 90), its start pulled back.
C25_Witness ==
  /\ pc[1] = "validated" /\ dl[1].duration = Sec(90)
  /\ cfg[1].clip_min_sec = Sec(30) /\ cfg[1].clip_max_sec = Sec(60)
  /\ content[1] = <<Early, PastEnd>> /\ Len(moments[1]) = 2
  /\ moments[1][1].start_time = Sec(10) /\ moments[1][1].end_time = Sec(40)
  /\ moments[1][2].start_time = Sec(60) /\ moments[1][2].end_time = Sec(90)

\* ------------------------------------------------------------------ C26
\* The segments that intersect the clip: end > clip start and start < clip end.
C26_Selected(clip, segments) ==
  { k \in Indices(segments) :
      segments[k].end > clip.start_time /\ segments[k].start < clip.end_time }

\* The .srt files of clip i in the working directory of thread t.
C26_Srt(t, i) ==
  { f \in files[pid[t]] : f[1] = "captioned_srt" /\ f[2] = i }

\* C26: the cues written for a clip are exactly the segments with end > clip
\* start and start < clip end, one cue per segment in transcript order; a
\* segment that only touches the clip at an endpoint gives no cue, and a clip
\* no segment intersects gets no .srt file.
C26_CuesAreOverlappingSegments ==
  \A t \in Threads :
    (pc[t] \in PastCaption /\ cfg[t].caption_style # "none")
      => \A i \in Indices(clips[t]) :
           LET segs == transcript[t].segments
               sel == C26_Selected(clips[t][i], segs)
           IN  IF sel = {} \/ clips[t][i].status # "done"
               THEN C26_Srt(t, i) = {}
               ELSE \E f \in C26_Srt(t, i) :
                      /\ C26_Srt(t, i) = {f}
                      /\ Len(f[3]) = Cardinality(sel)
                      /\ \A j \in Indices(f[3]) :
                           \E k \in sel :
                             /\ Cardinality({l \in sel : l <= k}) = j
                             /\ f[3][j].text = Upper(segs[k].text)

\* The clip (20 s, 50 s) over the segments (0,20), (20,50), (50,70): its .srt
\* holds the one cue of the middle segment.
C26_Witness ==
  \E t \in Threads :
    /\ pc[t] \in PastCaption /\ cfg[t].caption_style # "none"
    /\ Len(clips[t]) = 1 /\ clips[t][1].status = "done"
    /\ clips[t][1].start_time = Sec(20) /\ clips[t][1].end_time = Sec(50)
    /\ Len(transcript[t].segments) = 3
    /\ \E f \in C26_Srt(t, 1) : Len(f[3]) = 1 /\ f[3][1].text = "B"

\* ------------------------------------------------------------------ C27
\* The score validation must give the moments of the replies: 150 becomes 100,
\* 0 becomes 1, no score becomes 50, and 80 and 95 stay.
C27_Expected(reason) ==
  CASE reason = "a" -> 80
    [] reason = "b" -> 100
    [] reason = "c" -> 1
    [] reason = "d" -> 50
    [] reason = "ms" -> 95

\* C27: every validated moment has a hook_score in 1..100 (a score below 1
\* made 1, a score above 100 made 100, a missing score made 50), and the clip
\* of every later step and of the finalized row carries that score.
C27_ScoreClampedAndKept ==
  \A t \in Threads :
    /\ \A i \in Indices(moments[t]) :
         /\ moments[t][i].hook_score \in 1..100
         /\ moments[t][i].hook_score = C27_Expected(moments[t][i].reason)
    /\ (pc[t] \in PastExtract \/ Succeeded(t))
         => \A i \in Indices(clips[t]) :
              clips[t][i].hook_score = moments[t][i].hook_score
    /\ (Succeeded(t) /\ pid[t] \in Rows)
         => /\ Len(store[pid[t]].clips[1]) = Len(moments[t])
            /\ \A i \in Indices(moments[t]) :
                 store[pid[t]].clips[1][i].hook_score = moments[t][i].hook_score

\* A finished run whose row holds the clip scored 150 with score 100 and the
\* clip scored 80 with 80.
C27_Witness ==
  \E t \in Threads :
    /\ pc[t] = "finished" /\ ~Failed(t) /\ pid[t] \in Rows
    /\ Len(store[pid[t]].clips[1]) = 2
    /\ store[pid[t]].clips[1][1].reason = "b"
    /\ store[pid[t]].clips[1][1].hook_score = 100
    /\ store[pid[t]].clips[1][2].reason = "a"
    /\ store[pid[t]].clips[1][2].hook_score = 80

\* ------------------------------------------------------------------ C28
\* A step of shorts_endpoint takes a request from posts.
C28_Responds == posts' # posts

\* Exactly one thread is started, at the head of run_pipeline and for a
\* project id that is not empty; no other thread moves.
C28_StartsOne ==
  \E t \in Threads :
    /\ pc[t] = "unstarted" /\ pc'[t] = "fetch"
    /\ pid'[t] \in Projects
    /\ \A u \in Threads \ {t} : pc'[u] = pc[u] /\ pid'[u] = pid[u]

\* C28: POST /shorts answers 200 or 400. With 200 it has started exactly one
\* run, which has done no step yet; with 400 it has started none. Either way
\* the table, the working directories and the runs' data are as before.
C28_EndpointReturnsAtOnce ==
  [][ C28_Responds =>
        /\ response' \in {200, 400}
        /\ response' = 200 => C28_StartsOne
        /\ response' = 400 => UNCHANGED <<pc, pid>>
        /\ UNCHANGED <<shared, locals>> ]_vars

\* The request was answered 200 and its run has not done its first step.
C28_Witness ==
  /\ response = 200
  /\ posts = {}
  /\ \E t \in Threads : pc[t] = "fetch" /\ pid[t] = "p1" /\ ~sb_client

\* ------------------------------------------------------------------ C29
\* The files steps 4, 5 and 6 have written for the clip at position i.
C29_RenderFiles(t, i) ==
  {f \in files[pid[t]] :
     f[2] = i /\ f[1] \in {"clips", "captioned_srt", "captioned", "thumbnails"}}

\* A clip whose extraction failed has no file of any render step, no path, no
\* thumbnail and no URL.
C29_FailedClipHasNothing ==
  \A t \in Threads :
    pc[t] \in PastExtract =>
      \A i \in Indices(clips[t]) :
        clips[t][i].status = "error" =>
          /\ C29_RenderFiles(t, i) = {}
          /\ clips[t][i].path = None /\ clips[t][i].thumb_path = None
          /\ clips[t][i].video_url = None /\ clips[t][i].thumbnail_url = None

\* In the row of a finished run a clip with a URL has status done.
C29_UrlOnlyIfDone ==
  \A t \in Threads :
    (Succeeded(t) /\ pid[t] \in Rows) =>
      \A i \in Indices(store[pid[t]].clips[1]) :
        LET c == store[pid[t]].clips[1][i]
        IN  (c.video_url # None \/ c.thumbnail_url # None) => c.status = "done"

\* No step after extraction changes a failed clip, but for the title step 7
\* gives to every clip.
C29_FailedClipKept ==
  \A t \in Threads :
    \A i \in Indices(clips[t]) :
      (clips[t][i].status = "error" /\ i \in Indices(clips'[t]))
        => [clips'[t][i] EXCEPT !.title = clips[t][i].title] = clips[t][i]

\* C29: a clip with status error is skipped by captioning, thumbnailing and
\* upload: nothing is written for it and none of its fields but the title
\* changes; in the finalized row only a clip with status done has a URL.
C29_FailedClipSkipped ==
  /\ [](C29_FailedClipHasNothing /\ C29_UrlOnlyIfDone)
  /\ [][C29_FailedClipKept]_vars

\* A finished run with captions and thumbnails on: the first clip was
\* extracted and has both URLs in the row, the second failed and has none.
C29_Witness ==
  \E t \in Threads :
    /\ pc[t] = "finished" /\ ~Failed(t) /\ pid[t] \in Rows
    /\ cfg[t].caption_style # "none" /\ cfg[t].generate_thumbnails
    /\ Len(store[pid[t]].clips[1]) = 2
    /\ store[pid[t]].clips[1][1].status = "done"
    /\ store[pid[t]].clips[1][1].video_url = "url"
    /\ store[pid[t]].clips[1][1].thumbnail_url = "url"
    /\ clips[t][1].path = "captioned"
    /\ store[pid[t]].clips[1][2].status = "error"
    /\ store[pid[t]].clips[1][2].video_url = None
    /\ store[pid[t]].clips[1][2].thumbnail_url = None

\* ------------------------------------------------------------------ C30
\* The entry at position i carries the id and index of its position (i stands
\* for "clip-i") and the five values validation gave to moment i.
C30_SameAs(c, m, i) ==
  /\ c.id = i /\ c.index = i
  /\ c.start_time = m.start_time /\ c.end_time = m.end_time
  /\ c.duration = m.duration
  /\ c.hook_score = m.hook_score /\ c.reason = m.reason

\* C30: from extraction to finalize the list of clips has one entry per
\* validated moment, in the order of the moments, each with the id of its
\* position and the moment's start, end, duration, score and reason; the list
\* finalize writes to the row is the same in all of these.
C30_RefinedListPreserved ==
  \A t \in Threads :
    /\ (pc[t] \in PastExtract \/ Succeeded(t)) =>
         /\ Len(clips[t]) = Len(moments[t])
         /\ \A i \in Indices(clips[t]) : C30_SameAs(clips[t][i], moments[t][i], i)
    /\ (Succeeded(t) /\ pid[t] \in Rows) =>
         /\ Len(store[pid[t]].clips[1]) = Len(moments[t])
         /\ \A i \in Indices(moments[t]) :
              C30_SameAs(store[pid[t]].clips[1][i], moments[t][i], i)

\* A finished run on the reply <<MomentA, MomentB>>: the row lists MomentB,
\* ranked first, as clip 1 from 60 s to 90 s and MomentA as clip 2, after the
\* first was captioned and the second failed to extract.
C30_Witness ==
  \E t \in Threads :
    /\ pc[t] = "finished" /\ ~Failed(t) /\ pid[t] \in Rows
    /\ Len(store[pid[t]].clips[1]) = 2
    /\ store[pid[t]].clips[1][1].id = 1
    /\ store[pid[t]].clips[1][1].reason = "b"
    /\ store[pid[t]].clips[1][1].start_time = Sec(60)
    /\ store[pid[t]].clips[1][1].end_time = Sec(90)
    /\ store[pid[t]].clips[1][1].duration = Sec(30)
    /\ store[pid[t]].clips[1][2].id = 2
    /\ store[pid[t]].clips[1][2].reason = "a"
    /\ clips[t][1].path = "captioned"
    /\ clips[t][2].status = "error"

\* ------------------------------------------------------------------ C31
\* C31: the bounds a run holds after reading its row, the ones it passes to
\* detect_viral_moments, satisfy 0 < clip_min_sec <= clip_max_sec, whatever
\* the row's clip_length, clip_min_seconds and clip_max_seconds.
C31_BoundsPositiveAndOrdered ==
  \A t \in Threads :
    Configured(t) =>
      /\ 0 < cfg[t].clip_min_sec
      /\ cfg[t].clip_min_sec <= cfg[t].clip_max_sec

\* ------------------------------------------------------------------ C32
\* C32: every cue written to the .srt file of a clip lies within the clip as
\* rendered: 0 <= start <= end <= actual_duration.
C32_CuesWithinClip ==
  \A t \in Threads :
    \A i \in Indices(clips[t]) :
      \A f \in C26_Srt(t, i) :
        \A j \in Indices(f[3]) :
          /\ 0 <= f[3][j].start
          /\ f[3][j].start <= f[3][j].end
          /\ f[3][j].end <= clips[t][i].actual_duration

\* ------------------------------------------------------------------ C33
\* C33: a row with status done holds progress 100 and the final list of clips,
\* and a row whose stage reads done has status done and progress 100: stage
\* done is never in the row before finalize has written.
C33_DonePublishedAtOnce ==
  \A p \in Rows :
    /\ store[p].status = "done"
         => store[p].progress_pct = 100 /\ store[p].clips # <<>>
    /\ store[p].progress_stage = "done"
         => store[p].status = "done" /\ store[p].progress_pct = 100

====
